---- MODULE Spec2Model ----
(***************************************************************************)
(* Verification model of the resilient event-ingestion and outbound-call   *)
(* subsystem: the Stripe webhook gateway (serve + Reconciliation Handlers),*)
(* the retry executor (withRetry) and the CircuitBreaker.                  *)
(*                                                                         *)
(* JavaScript runs handlers on one thread: code between two awaits that    *)
(* wait for I/O is one atomic step.  Every action below is such a step.    *)
(***************************************************************************)
EXTENDS Integers, Sequences, FiniteSets, TLC

(***************************************************************************)
(* Bounds                                                                  *)
(***************************************************************************)
MaxDeliveries == 3      \* webhook requests received in one behaviour
MaxRetriesBound == 2    \* largest maxRetries of a caller profile that is tried
MaxCalls == 6           \* CircuitBreaker.execute calls started in one behaviour
MaxTime == 5            \* clock ticks in one behaviour of the breaker
MaxDelayAttempt == 5    \* largest attempt number calculateDelay is called with
MaxNotifications == 3   \* sendAdminNotification calls in one behaviour
MaxNotifyTime == 3      \* clock readings (minutes) in one behaviour of the notifier

Req == {"r1", "r2"}             \* concurrently served HTTP requests
EventIds == {"evt_1", "evt_2"}  \* provider event ids

(***************************************************************************)
(* Error classification (stripe-retry-utils.ts)                            *)
(***************************************************************************)
ErrorType == {"rate_limit", "network", "authentication", "invalid_request",
              "api_error", "card_error", "idempotency_error", "unknown"}

\* The faults an operation can raise: a Stripe SDK error with its .type, a
\* TypeError whose message mentions fetch, any other TypeError, anything else.
Faults == {"StripeRateLimitError", "StripeAuthenticationError",
           "StripeInvalidRequestError", "StripeAPIError", "StripeCardError",
           "StripeIdempotencyError", "StripeConnectionError",
           "TypeErrorFetch", "TypeErrorOther", "OtherError"}

\* Variant: a fault that is not recognised is classified by its own name.
classifyError_Unmapped(error) ==
  CASE error = "StripeRateLimitError"      -> "rate_limit"
    [] error = "StripeAuthenticationError" -> "authentication"
    [] error = "StripeInvalidRequestError" -> "invalid_request"
    [] error = "StripeAPIError"            -> "api_error"
    [] error = "StripeCardError"           -> "card_error"
    [] error = "StripeIdempotencyError"    -> "idempotency_error"
    [] error = "TypeErrorFetch"            -> "network"
    [] OTHER                               -> error

classifyError(error) ==
  CASE error = "StripeRateLimitError"      -> "rate_limit"
    [] error = "StripeAuthenticationError" -> "authentication"
    [] error = "StripeInvalidRequestError" -> "invalid_request"
    [] error = "StripeAPIError"            -> "api_error"
    [] error = "StripeCardError"           -> "card_error"
    [] error = "StripeIdempotencyError"    -> "idempotency_error"
    [] error = "StripeConnectionError"     -> "unknown"
    [] error = "TypeErrorFetch"            -> "network"
    [] OTHER                               -> "unknown"

\* Variant: no class is retried.
isRetryableError_None(errorType) == FALSE

\* Variant: authentication failures are retried.
isRetryableError_Auth(errorType) ==
  errorType \in {"rate_limit", "network", "api_error", "authentication"}

isRetryableError(errorType) ==
  CASE errorType \in {"rate_limit", "network", "api_error"} -> TRUE
    [] errorType \in {"authentication", "invalid_request", "card_error",
                      "idempotency_error"} -> FALSE
    [] OTHER -> FALSE

\* createErrorResponse: the HTTP status chosen for a classified error.
createErrorResponse(error) ==
  LET errorType == classifyError(error) IN
  CASE errorType = "authentication"  -> 401
    [] errorType = "invalid_request" -> 400
    [] errorType = "card_error"      -> 402
    [] errorType = "rate_limit"      -> 429
    [] errorType = "api_error"       -> 502
    [] errorType = "network"         -> 503
    [] OTHER                         -> 500

(***************************************************************************)
(* Webhook gateway: state                                                  *)
(***************************************************************************)
VARIABLES
  webhookSecret,    \* TRUE iff STRIPE_WEBHOOK_SECRET is set
  payload,          \* the (signed) payload of each event id
  req,              \* per request slot: position in serve and what it did
  processedEvents,  \* Set<string> of claimed event ids
  retryAttempts,    \* Map<string, number>
  customers,        \* rows of table customers (by stripe_customer_id)
  subscriptions,    \* rows of table subscriptions (by stripe_subscription_id)
  payments,         \* event ids whose payment / invoice row was written
  notifyCalls,      \* sendAdminNotification calls issued, as <<operation, severity>>
  deliveries,       \* history: requests received
  checks,           \* history: per event id, deliveries that reached the idempotency check
  claims,           \* history: per event id, times the id was added
  releases,         \* history: per event id, times the id was deleted
  effectRuns,       \* history: per event id, handler runs that wrote or notified
  handled           \* history: per event id, a handler run returned normally

whVars == <<webhookSecret, payload, req, processedEvents, retryAttempts,
            customers, subscriptions, payments, notifyCalls, deliveries,
            checks, claims, releases, effectRuns, handled>>

\* CircuitBreaker: state
VARIABLES
  failureThreshold, \* constructor argument
  resetTimeout,     \* constructor argument
  failures,         \* private failures
  lastFailureTime,  \* private lastFailureTime
  state,            \* 'closed' | 'open' | 'half-open'
  now,              \* Date.now()
  call,             \* per call slot: position in execute and what it saw
  started,          \* history: execute calls started
  consecFails       \* history: failed operations since the last successful one

cbVars == <<failureThreshold, resetTimeout, failures, lastFailureTime, state,
            now, call, started, consecFails>>

\* withRetry: state
VARIABLES
  config,       \* the caller's RetryConfig
  rtPc,         \* position in withRetry
  attempt,      \* loop variable
  invocations,  \* history: calls of operation()
  rtFailures,   \* history: failed attempts
  lastError,    \* let lastError
  sleeps,       \* history: backoff sleeps started
  sleepDelay,   \* the delay of the sleep in progress (or of the last one)
  delayConfig,  \* the profile that delay was computed from
  outcome,      \* what withRetry gave its caller: a value or the raised error
  logged        \* history: the logData records of logError (error, errorType, isRetryable)

rtVars == <<config, rtPc, attempt, invocations, rtFailures, lastError, sleeps,
            sleepDelay, delayConfig, outcome, logged>>

\* calculateDelay called for successive attempts: state
VARIABLES
  delayProfile,  \* the RetryConfig passed
  delayAttempt,  \* the attempt number of the last call (0: not called yet)
  delayArgs,     \* rateLimitResetTime, Date.now() and the jitter draw of that call
  delayResult,   \* what that call returned
  prevArgs,      \* the same for the call before it
  prevResult

dlVars == <<delayProfile, delayAttempt, delayArgs, delayResult, prevArgs,
            prevResult>>

\* Admin notifications: state
VARIABLES
  notifyConfig,       \* the AdminNotificationConfig the callers pass
  notificationCache,  \* Map<string, number>: key -> time last sent (0: no entry)
  notifyNow,          \* Date.now(), in minutes
  send,               \* per call slot: position in sendAdminNotification and what it did
  lastFanOut,         \* history: per key, when a call last started its channel sends
  notifications       \* history: sendAdminNotification calls made

anVars == <<notifyConfig, notificationCache, notifyNow, send, lastFanOut,
            notifications>>

vars == <<whVars, cbVars, rtVars, dlVars, anVars>>

Methods == {"POST", "GET", "OPTIONS"}
Signatures == {"none", "bad", "good"}   \* header absent / fails verification / verifies

\* The event types serve switches on, one per handler, and one it does not
\* handle.  customer.subscription.created shares the case of ...updated; the
\* invoice.payment_succeeded / invoice.payment_failed handlers have the control
\* flow of their payment_intent twins and are covered by those.
EventTypes == {"checkout.session.completed", "payment_intent.succeeded",
               "payment_intent.payment_failed", "customer.subscription.updated",
               "customer.subscription.deleted", "charge.refunded"}

\* event.data.object: absent (hasObject = FALSE) or an object with the fields
\* the handlers branch on.  customer / subscription: 0 is null.  status and
\* period are the subscription's status and current_period_start/end; the
\* provider sends two snapshots of a subscription: active in period 1 and
\* past_due in period 2.  Fields a handler does not read are left at their
\* defaults.
Payloads ==
  { p \in [type : EventTypes, hasObject : BOOLEAN, customer : 0..1,
           userMeta : BOOLEAN, subscription : 0..1,
           status : {"active", "past_due"}, period : 1..2] :
      /\ (~p.hasObject) => (p.customer = 0 /\ ~p.userMeta /\ p.subscription = 0
                            /\ p.type # "charge.refunded")
      /\ (p.type # "checkout.session.completed") => (~p.userMeta)
      /\ (p.type = "checkout.session.completed" /\ p.customer = 0)
            => (~p.userMeta /\ p.subscription = 0)
      /\ (p.type \in {"payment_intent.succeeded", "payment_intent.payment_failed",
                      "charge.refunded"})
            => (p.customer = 0 /\ p.subscription = 0)
      /\ (p.type \in {"customer.subscription.updated",
                      "customer.subscription.deleted"} /\ p.hasObject)
            => (p.customer = 1 /\ p.subscription = 1)
      /\ (p.type \in {"customer.subscription.updated",
                      "customer.subscription.deleted"} /\ p.hasObject)
            => (p.period = IF p.status = "active" THEN 1 ELSE 2)
      /\ ~(p.type \in {"customer.subscription.updated",
                       "customer.subscription.deleted"} /\ p.hasObject)
            => (p.status = "active" /\ p.period = 1) }

NoPayload == [type |-> "none"]   \* the provider has not sent this event yet

NoEvent == "unknown"   \* let eventId = 'unknown'

\* resolved: the handler has the customers row; unresolved: the lookup found
\* no customer; subUpsert: the handler issued its subscriptions upsert;
\* storeError: a store call of the handler failed for a reason other than a
\* constraint; matched: when the handler returned, the subscriptions row held
\* the payload's status and period.
IdleReq == [pc |-> "idle", method |-> "POST", sig |-> "none", ev |-> NoEvent,
            status |-> 0, processed |-> "absent", claimed |-> FALSE,
            released |-> FALSE, failed |-> FALSE, threw |-> FALSE,
            wrote |-> FALSE, ord |-> 0, relSeen |-> 0,
            resolved |-> FALSE, unresolved |-> FALSE, subUpsert |-> FALSE,
            storeError |-> FALSE, matched |-> FALSE]

WebhookInit ==
  /\ webhookSecret \in BOOLEAN
  /\ payload = [e \in EventIds |-> NoPayload]
  /\ req = [r \in Req |-> IdleReq]
  /\ processedEvents = {}
  /\ retryAttempts = [e \in EventIds |-> 0]
  /\ customers = {}
  /\ subscriptions = {}
  /\ payments = {}
  /\ notifyCalls = {}
  /\ deliveries = 0
  /\ checks = [e \in EventIds |-> 0]
  /\ claims = [e \in EventIds |-> 0]
  /\ releases = [e \in EventIds |-> 0]
  /\ effectRuns = [e \in EventIds |-> 0]
  /\ handled = [e \in EventIds |-> FALSE]


(***************************************************************************)
(* Webhook gateway: serve                                                  *)
(***************************************************************************)
Respond(q, st, pr) == [q EXCEPT !.pc = "responded", !.status = st, !.processed = pr]

\* Variant: any signature header is accepted.
constructEventAsync_AnyHeader(sig) == sig # "none"

\* stripe.webhooks.constructEventAsync(body, signature, webhookSecret) resolves
\* iff the signature verifies against the secret.
constructEventAsync(sig) == sig = "good"

\* Variant: the idempotency check never hits.
AlreadyProcessed_Never(e) == FALSE

\* processedEvents.has(eventId)
AlreadyProcessed(e) == e \in processedEvents

\* A handler dereferences event.data.object outside its try block (or again
\* inside its catch block): a missing object makes it throw a TypeError that
\* reaches the catch block of serve.  The default branch calls no handler.
HandlerThrows(p) == p.type # "charge.refunded" /\ ~p.hasObject

\* Method check, body and signature header, secret check; then the request
\* awaits constructEventAsync.  The body of a signed POST is the provider's
\* payload of some event id (ev), whether or not the signature verifies; the
\* provider fixes the payload of an event when it first sends it.
ServeStart(r) ==
  /\ req[r].pc = "idle"
  /\ deliveries < MaxDeliveries
  /\ deliveries' = deliveries + 1
  /\ \E m \in Methods, s \in Signatures :
       \/ /\ m = "POST" /\ s # "none"
          /\ \E e \in EventIds, p \in Payloads :
               /\ payload[e] \in {NoPayload, p}
               /\ payload' = [payload EXCEPT ![e] = p]
               /\ req' = [req EXCEPT ![r] =
                    LET q == [IdleReq EXCEPT !.sig = s, !.ev = e] IN
                    IF ~webhookSecret THEN Respond(q, 500, "absent")
                    ELSE [q EXCEPT !.pc = "verifying"]]
       \/ /\ s = "none"
          /\ UNCHANGED payload
          /\ req' = [req EXCEPT ![r] =
               LET q == [IdleReq EXCEPT !.method = m] IN
               IF m = "OPTIONS" THEN Respond(q, 200, "absent")
               ELSE IF m # "POST" THEN Respond(q, 405, "absent")
               ELSE Respond(q, 400, "absent")]
  /\ UNCHANGED <<cbVars, rtVars, dlVars, anVars>>
  /\ UNCHANGED <<webhookSecret, processedEvents, retryAttempts,
                 customers, subscriptions, payments, notifyCalls, checks,
                 claims, releases, effectRuns, handled>>

\* constructEventAsync rejects: 400 Invalid signature.
VerifyFailed(r) ==
  /\ req[r].pc = "verifying"
  /\ ~constructEventAsync(req[r].sig)
  /\ req' = [req EXCEPT ![r] = Respond(@, 400, "absent")]
  /\ UNCHANGED <<cbVars, rtVars, dlVars, anVars>>
  /\ UNCHANGED <<webhookSecret, payload, processedEvents, retryAttempts,
                 customers, subscriptions, payments, notifyCalls, deliveries,
                 checks, claims, releases, effectRuns, handled>>

\* Idempotency check hit: 200 {received: true, processed: false}.
Duplicate(r) ==
  LET e == req[r].ev IN
  /\ req[r].pc = "verifying"
  /\ constructEventAsync(req[r].sig)
  /\ AlreadyProcessed(e)
  /\ checks' = [checks EXCEPT ![e] = @ + 1]
  /\ req' = [req EXCEPT ![r] =
               Respond([@ EXCEPT !.ord = checks[e] + 1, !.relSeen = releases[e]],
                       200, "false")]
  /\ UNCHANGED <<cbVars, rtVars, dlVars, anVars>>
  /\ UNCHANGED <<webhookSecret, payload, processedEvents, retryAttempts,
                 customers, subscriptions, payments, notifyCalls, deliveries,
                 claims, releases, effectRuns, handled>>

\* The request passes the idempotency check and claims the id:
\* processedEvents.add(eventId); retryAttempts.set(eventId, current + 1).
CanClaim(r) ==
  /\ req[r].pc = "verifying"
  /\ constructEventAsync(req[r].sig)
  /\ ~AlreadyProcessed(req[r].ev)

Claimed(r) == [req[r] EXCEPT !.claimed = TRUE, !.ord = checks[req[r].ev] + 1,
                             !.relSeen = releases[req[r].ev]]

ClaimEffects(e) ==
  /\ checks' = [checks EXCEPT ![e] = @ + 1]
  /\ claims' = [claims EXCEPT ![e] = @ + 1]
  /\ retryAttempts' = [retryAttempts EXCEPT ![e] = @ + 1]

\* The handler returned to serve: 200 {received: true, processed}.
Return(q, result) == Respond(q, 200, IF result THEN "true" ELSE "false")

\* First store write or notification of a handler run.
Effect(q) == [q EXCEPT !.wrote = TRUE]
EffectCount(r) ==
  effectRuns' = IF req[r].wrote THEN effectRuns
                ELSE [effectRuns EXCEPT ![req[r].ev] = @ + 1]

\* notifyCriticalError(error, {context, eventId}): one sendAdminNotification
\* call of severity critical whose operation is the error itself.
CriticalErrorCall == <<"TypeError", "critical_system_error", "critical">>

\* notifyWebhookFailure(error, eventId): retryCount is undefined, so the
\* severity is medium.
WebhookFailureCall == <<"webhook_processing", "webhook_failure", "medium">>

\* Variant: the catch block reports the webhook failure only.
CatchNotifications_WebhookOnly == {WebhookFailureCall}

\* await notifyWebhookFailure(...); await notifyCriticalError(...)
CatchNotifications == {WebhookFailureCall, CriticalErrorCall}

\* The handler throws before its first await; serve's catch block deletes the
\* id, calls notifyWebhookFailure(error, eventId) (retryCount undefined, so
\* severity medium) and notifyCriticalError(error, {...}), and awaits them.
DispatchThrows(r) ==
  LET e == req[r].ev IN
  /\ CanClaim(r)
  /\ HandlerThrows(payload[e])
  /\ ClaimEffects(e)
  /\ processedEvents' = (processedEvents \cup {e}) \ {e}
  /\ releases' = [releases EXCEPT ![e] = @ + 1]
  /\ notifyCalls' = notifyCalls \cup CatchNotifications
  /\ req' = [req EXCEPT ![r] = [Claimed(r) EXCEPT !.pc = "catch", !.threw = TRUE,
                                                  !.released = TRUE]]
  /\ UNCHANGED <<cbVars, rtVars, dlVars, anVars>>
  /\ UNCHANGED <<webhookSecret, payload, customers, subscriptions, payments,
                 deliveries, effectRuns, handled>>

\* return createErrorResponse(error, 'stripe_webhook', ...)
CatchRespond(r) ==
  /\ req[r].pc = "catch"
  /\ req' = [req EXCEPT ![r] =
               Respond(@, createErrorResponse("TypeErrorOther"), "absent")]
  /\ UNCHANGED <<cbVars, rtVars, dlVars, anVars>>
  /\ UNCHANGED <<webhookSecret, payload, processedEvents, retryAttempts,
                 customers, subscriptions, payments, notifyCalls, deliveries,
                 checks, claims, releases, effectRuns, handled>>

\* default: console.log('Unhandled event type'); processed stays false.
DispatchUnhandled(r) ==
  LET e == req[r].ev IN
  /\ CanClaim(r)
  /\ payload[e].type = "charge.refunded"
  /\ ClaimEffects(e)
  /\ processedEvents' = processedEvents \cup {e}
  /\ handled' = [handled EXCEPT ![e] = TRUE]
  /\ req' = [req EXCEPT ![r] = Return(Claimed(r), FALSE)]
  /\ UNCHANGED <<cbVars, rtVars, dlVars, anVars>>
  /\ UNCHANGED <<webhookSecret, payload, customers, subscriptions, payments,
                 notifyCalls, deliveries, releases, effectRuns>>


(***************************************************************************)
(* Reconciliation Handlers.  A supabase query never throws: it resolves to *)
(* {data, error}; dbOk is whether the store answered without error.        *)
(***************************************************************************)
SubscriptionTypes == {"customer.subscription.updated",
                      "customer.subscription.deleted"}

\* notifySubscriptionFailure / notifyPaymentFailure: one sendAdminNotification
\* call of severity high.
SubscriptionFailureCall == <<"subscription_processing", "subscription_failure", "high">>
PaymentFailureCall == <<"payment_processing", "payment_failure", "high">>

\* catch (error) { await notifySubscriptionFailure(...); return false }
CatchInHandler(q) == [Effect(q) EXCEPT !.pc = "h_notify", !.failed = TRUE]

\* handleCheckoutSessionCompleted up to its first await.
DispatchCheckout(r) ==
  LET e == req[r].ev
      p == payload[e] IN
  /\ CanClaim(r)
  /\ p.type = "checkout.session.completed"
  /\ ~HandlerThrows(p)
  /\ ClaimEffects(e)
  /\ processedEvents' = processedEvents \cup {e}
  /\ IF p.customer = 0
       THEN /\ req' = [req EXCEPT ![r] = Return(Claimed(r), FALSE)]
            /\ handled' = [handled EXCEPT ![e] = TRUE]
       ELSE /\ req' = [req EXCEPT ![r] =
                         [Claimed(r) EXCEPT !.pc = IF p.userMeta
                                                     THEN "co_upsertCustomer"
                                                     ELSE "co_select"]]
            /\ UNCHANGED handled
  /\ UNCHANGED <<cbVars, rtVars, dlVars, anVars>>
  /\ UNCHANGED <<webhookSecret, payload, customers, subscriptions, payments,
                 notifyCalls, deliveries, releases, effectRuns>>

\* select('user_id').eq('stripe_customer_id', customerId).maybeSingle() resolved.
CheckoutSelectDone(r) ==
  LET e == req[r].ev
      p == payload[e] IN
  /\ req[r].pc = "co_select"
  /\ \E dbOk \in BOOLEAN :
       LET userId == dbOk /\ p.customer \in customers IN
       IF userId
         THEN /\ req' = [req EXCEPT ![r].pc = "co_upsertCustomer"]
              /\ UNCHANGED handled
         ELSE /\ req' = [req EXCEPT ![r] =
                          Return([@ EXCEPT !.unresolved = dbOk,
                                           !.storeError = ~dbOk], FALSE)]
              /\ handled' = [handled EXCEPT ![e] = TRUE]
  /\ UNCHANGED <<cbVars, rtVars, dlVars, anVars>>
  /\ UNCHANGED <<webhookSecret, payload, processedEvents, retryAttempts,
                 customers, subscriptions, payments, notifyCalls, deliveries,
                 checks, claims, releases, effectRuns>>

\* upsert(row) without onConflict resolves conflicts on the primary key only.
\* The rows the handlers pass carry no id, so the row is inserted with a
\* fresh id: a row with the same stripe_customer_id (UNIQUE) makes it fail.
CustomerConflict(customerId) == customerId \in customers

\* The same for subscriptions and stripe_subscription_id (UNIQUE).
SubscriptionConflict(subscriptionId) ==
  \E s \in subscriptions : s.id = subscriptionId

\* from('customers').upsert(...) resolved; customerError is thrown into the
\* handler's own catch block.
CheckoutUpsertCustomerDone(r) ==
  LET e == req[r].ev
      p == payload[e] IN
  /\ req[r].pc = "co_upsertCustomer"
  /\ EffectCount(r)
  /\ \E dbOk \in BOOLEAN :
       LET customerError == ~dbOk \/ CustomerConflict(p.customer) IN
       IF ~customerError
         THEN /\ customers' = customers \cup {p.customer}
              /\ UNCHANGED notifyCalls
              /\ IF p.subscription # 0
                   THEN /\ req' = [req EXCEPT ![r] =
                                     [Effect(@) EXCEPT !.pc = "co_upsertSub",
                                                       !.resolved = TRUE,
                                                       !.subUpsert = TRUE]]
                        /\ UNCHANGED handled
                   ELSE /\ req' = [req EXCEPT ![r] =
                                     Return([Effect(@) EXCEPT !.resolved = TRUE], TRUE)]
                        /\ handled' = [handled EXCEPT ![e] = TRUE]
         ELSE /\ notifyCalls' = notifyCalls \cup {SubscriptionFailureCall}
              /\ req' = [req EXCEPT ![r] =
                           [CatchInHandler(@) EXCEPT !.storeError = ~dbOk]]
              /\ UNCHANGED <<customers, handled>>
  /\ UNCHANGED <<cbVars, rtVars, dlVars, anVars>>
  /\ UNCHANGED <<webhookSecret, payload, processedEvents, retryAttempts,
                 subscriptions, payments, deliveries, checks, claims, releases>>

\* from('subscriptions').upsert(row): the table after the call.  The row is
\* inserted unless it conflicts, in which case the call resolves to an error
\* and the table is as before.
UpsertSubscription(row) ==
  IF SubscriptionConflict(row.id) THEN subscriptions
  ELSE subscriptions \cup {row}

\* The row handleCheckoutSessionCompleted upserts: status 'active', no period.
CheckoutRow(p) ==
  [id |-> p.subscription, customer |-> p.customer, status |-> "active",
   period |-> 0]

\* The row handleSubscriptionUpdated / handleSubscriptionDeleted upserts.
SubscriptionRow(p) ==
  [id |-> p.subscription, customer |-> p.customer, status |-> p.status,
   period |-> p.period]

\* from('subscriptions').upsert(...) resolved; its error is not looked at.
CheckoutUpsertSubDone(r) ==
  LET e == req[r].ev
      p == payload[e] IN
  /\ req[r].pc = "co_upsertSub"
  /\ \E dbOk \in BOOLEAN :
       /\ subscriptions' = IF dbOk THEN UpsertSubscription(CheckoutRow(p))
                           ELSE subscriptions
       /\ req' = [req EXCEPT ![r] =
                    Return([@ EXCEPT !.storeError = ~dbOk,
                                     !.matched = CheckoutRow(p) \in subscriptions'],
                           TRUE)]
  /\ handled' = [handled EXCEPT ![e] = TRUE]
  /\ UNCHANGED <<cbVars, rtVars, dlVars, anVars>>
  /\ UNCHANGED <<webhookSecret, payload, processedEvents, retryAttempts,
                 customers, payments, notifyCalls, deliveries, checks, claims,
                 releases, effectRuns>>

\* handleSubscriptionUpdated / handleSubscriptionDeleted up to the first await.
DispatchSubscription(r) ==
  LET e == req[r].ev
      p == payload[e] IN
  /\ CanClaim(r)
  /\ p.type \in SubscriptionTypes
  /\ ~HandlerThrows(p)
  /\ ClaimEffects(e)
  /\ processedEvents' = processedEvents \cup {e}
  /\ req' = [req EXCEPT ![r] = [Claimed(r) EXCEPT !.pc = "sub_select"]]
  /\ UNCHANGED <<cbVars, rtVars, dlVars, anVars>>
  /\ UNCHANGED <<webhookSecret, payload, customers, subscriptions, payments,
                 notifyCalls, deliveries, releases, effectRuns, handled>>

\* Variant: the lookup reports a customer whenever the store answers.
CustomerFound_Any(dbOk, customerId) == dbOk

\* select('id').eq('stripe_customer_id', customerId).single(): data is a row
\* iff the store answered and exactly one row has that stripe_customer_id.
CustomerFound(dbOk, customerId) == dbOk /\ customerId \in customers

\* The select resolved: no row or a store error gives customerError, thrown
\* into the handler's catch block; otherwise the subscriptions upsert is
\* issued.
SubscriptionSelectDone(r) ==
  LET e == req[r].ev
      p == payload[e] IN
  /\ req[r].pc = "sub_select"
  /\ \E dbOk \in BOOLEAN :
       LET customerError == ~CustomerFound(dbOk, p.customer) IN
       IF customerError
         THEN /\ notifyCalls' = notifyCalls \cup {SubscriptionFailureCall}
              /\ req' = [req EXCEPT ![r] =
                           [CatchInHandler(@) EXCEPT !.unresolved = dbOk,
                                                     !.storeError = ~dbOk]]
              /\ EffectCount(r)
         ELSE /\ req' = [req EXCEPT ![r] = [@ EXCEPT !.pc = "sub_upsert",
                                                     !.resolved = TRUE,
                                                     !.subUpsert = TRUE]]
              /\ UNCHANGED <<notifyCalls, effectRuns>>
  /\ UNCHANGED <<cbVars, rtVars, dlVars, anVars>>
  /\ UNCHANGED <<webhookSecret, payload, processedEvents, retryAttempts,
                 customers, subscriptions, payments, deliveries, checks,
                 claims, releases, handled>>

\* from('subscriptions').upsert(...) resolved; its error is not looked at.
SubscriptionUpsertDone(r) ==
  LET e == req[r].ev
      p == payload[e] IN
  /\ req[r].pc = "sub_upsert"
  /\ \E dbOk \in BOOLEAN :
       LET after == IF dbOk THEN UpsertSubscription(SubscriptionRow(p))
                    ELSE subscriptions
           q == [req[r] EXCEPT !.storeError = ~dbOk,
                               !.matched = SubscriptionRow(p) \in after]
       IN /\ subscriptions' = after
          /\ IF after # subscriptions
               THEN /\ EffectCount(r)
                    /\ req' = [req EXCEPT ![r] = Return(Effect(q), TRUE)]
               ELSE /\ req' = [req EXCEPT ![r] = Return(q, TRUE)]
                    /\ UNCHANGED effectRuns
  /\ handled' = [handled EXCEPT ![e] = TRUE]
  /\ UNCHANGED <<cbVars, rtVars, dlVars, anVars>>
  /\ UNCHANGED <<webhookSecret, payload, processedEvents, retryAttempts,
                 customers, payments, notifyCalls, deliveries, checks, claims,
                 releases>>

\* handlePaymentIntentSucceeded / handleInvoicePaymentSucceeded up to the await.
DispatchPaymentSucceeded(r) ==
  LET e == req[r].ev
      p == payload[e] IN
  /\ CanClaim(r)
  /\ p.type = "payment_intent.succeeded"
  /\ ~HandlerThrows(p)
  /\ ClaimEffects(e)
  /\ processedEvents' = processedEvents \cup {e}
  /\ req' = [req EXCEPT ![r] = [Claimed(r) EXCEPT !.pc = "pay_upsert"]]
  /\ UNCHANGED <<cbVars, rtVars, dlVars, anVars>>
  /\ UNCHANGED <<webhookSecret, payload, customers, subscriptions, payments,
                 notifyCalls, deliveries, releases, effectRuns, handled>>

\* from('payments' / 'invoices').upsert(...) resolved; its error is not looked at.
PaymentUpsertDone(r) ==
  LET e == req[r].ev IN
  /\ req[r].pc = "pay_upsert"
  /\ \E dbOk \in BOOLEAN :
       IF dbOk
         THEN /\ payments' = payments \cup {e}
              /\ EffectCount(r)
              /\ req' = [req EXCEPT ![r] = Return(Effect(@), TRUE)]
         ELSE /\ req' = [req EXCEPT ![r] = Return(@, TRUE)]
              /\ UNCHANGED <<payments, effectRuns>>
  /\ handled' = [handled EXCEPT ![e] = TRUE]
  /\ UNCHANGED <<cbVars, rtVars, dlVars, anVars>>
  /\ UNCHANGED <<webhookSecret, payload, processedEvents, retryAttempts,
                 customers, subscriptions, notifyCalls, deliveries, checks,
                 claims, releases>>

\* handlePaymentIntentFailed / handleInvoicePaymentFailed: notify, return true.
DispatchPaymentFailed(r) ==
  LET e == req[r].ev
      p == payload[e] IN
  /\ CanClaim(r)
  /\ p.type = "payment_intent.payment_failed"
  /\ ~HandlerThrows(p)
  /\ ClaimEffects(e)
  /\ processedEvents' = processedEvents \cup {e}
  /\ notifyCalls' = notifyCalls \cup {PaymentFailureCall}
  /\ effectRuns' = [effectRuns EXCEPT ![e] = @ + 1]
  /\ req' = [req EXCEPT ![r] = [Effect(Claimed(r)) EXCEPT !.pc = "h_notify"]]
  /\ UNCHANGED <<cbVars, rtVars, dlVars, anVars>>
  /\ UNCHANGED <<webhookSecret, payload, customers, subscriptions, payments,
                 deliveries, releases, handled>>

\* The awaited notify... call of a handler resolved; the handler returns
\* false from its catch block, true otherwise.
HandlerNotifyDone(r) ==
  /\ req[r].pc = "h_notify"
  /\ req' = [req EXCEPT ![r] = Return(@, ~req[r].failed)]
  /\ handled' = [handled EXCEPT ![req[r].ev] = TRUE]
  /\ UNCHANGED <<cbVars, rtVars, dlVars, anVars>>
  /\ UNCHANGED <<webhookSecret, payload, processedEvents, retryAttempts,
                 customers, subscriptions, payments, notifyCalls, deliveries,
                 checks, claims, releases, effectRuns>>

\* The response has been sent; the slot serves the next request.
Close(r) ==
  /\ req[r].pc = "responded"
  /\ req' = [req EXCEPT ![r] = IdleReq]
  /\ UNCHANGED <<cbVars, rtVars, dlVars, anVars>>
  /\ UNCHANGED <<webhookSecret, payload, processedEvents, retryAttempts,
                 customers, subscriptions, payments, notifyCalls, deliveries,
                 checks, claims, releases, effectRuns, handled>>

\* The function's module is loaded again (a new isolate serves the next
\* requests): processedEvents and retryAttempts are new and empty, the
\* store keeps its rows.
ModuleLoad ==
  /\ \A r \in Req : req[r].pc = "idle"
  /\ processedEvents # {}
  /\ processedEvents' = {}
  /\ retryAttempts' = [e \in EventIds |-> 0]
  /\ UNCHANGED <<cbVars, rtVars, dlVars, anVars>>
  /\ UNCHANGED <<webhookSecret, payload, req, customers, subscriptions,
                 payments, notifyCalls, deliveries, checks, claims, releases,
                 effectRuns, handled>>

Next ==
  \E r \in Req :
    \/ ServeStart(r)
    \/ VerifyFailed(r)
    \/ Duplicate(r)
    \/ DispatchThrows(r)
    \/ CatchRespond(r)
    \/ DispatchUnhandled(r)
    \/ DispatchCheckout(r)
    \/ CheckoutSelectDone(r)
    \/ CheckoutUpsertCustomerDone(r)
    \/ CheckoutUpsertSubDone(r)
    \/ DispatchSubscription(r)
    \/ SubscriptionSelectDone(r)
    \/ SubscriptionUpsertDone(r)
    \/ DispatchPaymentSucceeded(r)
    \/ PaymentUpsertDone(r)
    \/ DispatchPaymentFailed(r)
    \/ HandlerNotifyDone(r)
    \/ Close(r)



(***************************************************************************)
(* CircuitBreaker (stripe-retry-utils.ts).  Overlapping execute calls on   *)
(* one breaker; the clock is Date.now() in units of resetTimeout ticks.    *)
(***************************************************************************)

Calls == {"a", "b"}          \* overlapping execute calls
Thresholds == {1, 2, 5}      \* failureThreshold values tried (5 is the default)
ResetTimeouts == {1, 2}      \* resetTimeout values tried, in clock ticks

\* entry: the state the call found; since: now - lastFailureTime at that moment;
\* found: the state when operation() settled; left, leftFailures: state and
\* failures when onSuccess / onFailure returned.
IdleCall == [pc |-> "idle", entry |-> "none", since |-> 0,
             probe |-> FALSE, invoked |-> FALSE, found |-> "none",
             left |-> "none", leftFailures |-> 0]

BreakerInit ==
  /\ failureThreshold \in Thresholds
  /\ resetTimeout \in ResetTimeouts
  /\ failures = 0
  /\ lastFailureTime = 0
  /\ state = "closed"
  /\ now = 1
  /\ call = [c \in Calls |-> IdleCall]
  /\ started = 0
  /\ consecFails = 0

\* Variant: the reset timeout counts as elapsed one tick early.
ResetElapsed_Inclusive == now - lastFailureTime >= resetTimeout

\* Date.now() - this.lastFailureTime > this.resetTimeout
ResetElapsed == now - lastFailureTime > resetTimeout

\* Variant: the breaker opens one failure late.
ThresholdReached_Strict(n) == n > failureThreshold

\* this.failures >= this.failureThreshold
ThresholdReached(n) == n >= failureThreshold

\* execute up to "await operation()": an open breaker becomes half-open once
\* the reset timeout has elapsed, otherwise the call throws 'Circuit breaker
\* is open'; in every other state the operation is invoked.
ExecuteStartBody(c) ==
  /\ call[c].pc = "idle"
  /\ started < MaxCalls
  /\ started' = started + 1
  /\ LET seen == [IdleCall EXCEPT !.entry = state, !.since = now - lastFailureTime] IN
     IF state = "open"
       THEN IF ResetElapsed
              THEN /\ state' = "half-open"
                   /\ call' = [call EXCEPT ![c] = [seen EXCEPT !.pc = "running",
                                                   !.probe = TRUE, !.invoked = TRUE]]
              ELSE /\ state' = state
                   /\ call' = [call EXCEPT ![c] = [seen EXCEPT !.pc = "rejected"]]
       ELSE /\ state' = state
            /\ call' = [call EXCEPT ![c] = [seen EXCEPT !.pc = "running",
                                            !.invoked = TRUE]]
  /\ UNCHANGED <<failureThreshold, resetTimeout, failures, lastFailureTime,
                 now, consecFails>>

ExecuteStart(c) ==
  /\ ExecuteStartBody(c)
  /\ UNCHANGED <<whVars, rtVars, dlVars, anVars>>

\* Variant: a success leaves the failure count as it is.
onSuccess_KeepCount(n) == n

\* onSuccess: this.failures = 0 (n is the count before).
onSuccess(n) == 0

\* operation() resolved: onSuccess(); return result.
OperationSucceedsBody(c) ==
  /\ call[c].pc = "running"
  /\ failures' = onSuccess(failures)
  /\ state' = "closed"
  /\ consecFails' = 0
  /\ call' = [call EXCEPT ![c].pc = "returned", ![c].found = state,
                          ![c].left = "closed",
                          ![c].leftFailures = onSuccess(failures)]
  /\ UNCHANGED <<failureThreshold, resetTimeout, lastFailureTime, now, started>>

OperationSucceeds(c) ==
  /\ OperationSucceedsBody(c)
  /\ UNCHANGED <<whVars, rtVars, dlVars, anVars>>

\* operation() rejected: onFailure(); throw error.
OperationFailsBody(c) ==
  /\ call[c].pc = "running"
  /\ failures' = failures + 1
  /\ lastFailureTime' = now
  /\ state' = IF ThresholdReached(failures + 1) THEN "open" ELSE state
  /\ consecFails' = consecFails + 1
  /\ call' = [call EXCEPT ![c].pc = "threw", ![c].found = state,
                          ![c].left = IF ThresholdReached(failures + 1)
                                      THEN "open" ELSE state,
                          ![c].leftFailures = failures + 1]
  /\ UNCHANGED <<failureThreshold, resetTimeout, now, started>>

OperationFails(c) ==
  /\ OperationFailsBody(c)
  /\ UNCHANGED <<whVars, rtVars, dlVars, anVars>>

\* The caller has the result of execute; the slot is free for the next call.
CallDoneBody(c) ==
  /\ call[c].pc \in {"returned", "threw", "rejected"}
  /\ call' = [call EXCEPT ![c] = IdleCall]
  /\ UNCHANGED <<failureThreshold, resetTimeout, failures, lastFailureTime,
                 state, now, started, consecFails>>

CallDone(c) ==
  /\ CallDoneBody(c)
  /\ UNCHANGED <<whVars, rtVars, dlVars, anVars>>

\* Time passes.
Tick ==
  /\ now < MaxTime
  /\ now' = now + 1
  /\ UNCHANGED <<whVars, rtVars, dlVars, anVars>>
  /\ UNCHANGED <<failureThreshold, resetTimeout, failures, lastFailureTime,
                 state, call, started, consecFails>>

BreakerNext ==
  \/ \E c \in Calls : ExecuteStart(c)
  \/ \E c \in Calls : OperationSucceeds(c)
  \/ \E c \in Calls : OperationFails(c)
  \/ \E c \in Calls : CallDone(c)
  \/ Tick


(***************************************************************************)
(* Retry executor: calculateDelay and withRetry (stripe-retry-utils.ts).   *)
(* Delays and clock readings are in milliseconds.                          *)
(***************************************************************************)
DEFAULT_RETRY_CONFIG ==
  [maxRetries |-> 3, baseDelay |-> 1000, maxDelay |-> 30000,
   backoffMultiplier |-> 2, jitter |-> TRUE]

RATE_LIMIT_RETRY_CONFIG ==
  [maxRetries |-> 5, baseDelay |-> 2000, maxDelay |-> 60000,
   backoffMultiplier |-> 2, jitter |-> TRUE]

\* The profiles a caller passes: the two named ones, and the default one with
\* fewer retries, with and without jitter.
CallerProfiles ==
  {DEFAULT_RETRY_CONFIG, RATE_LIMIT_RETRY_CONFIG} \cup
  {[DEFAULT_RETRY_CONFIG EXCEPT !.maxRetries = m, !.jitter = j] :
     m \in 0..MaxRetriesBound, j \in BOOLEAN}

NowValues == {5000}                 \* Date.now() readings
Hints == {0, 3, 6, 100}             \* parseInt(x-ratelimit-reset-after); 0: no header
JitterPercents == {50, 75, 99}      \* 100 * (0.5 + Math.random() * 0.5)

RECURSIVE Pow(_, _)
Pow(b, n) == IF n <= 0 THEN 1 ELSE b * Pow(b, n - 1)

Min(a, b) == IF a <= b THEN a ELSE b

\* Variant: the backoff delay is returned without the cap.
calculateDelay_NoCap(n, cfg, rateLimitResetTime, dateNow, jitterPercent) ==
  LET resetDelay == (rateLimitResetTime * 1000) - dateNow
      backoff == cfg.baseDelay * Pow(cfg.backoffMultiplier, n - 1)
      delay == IF cfg.jitter THEN (backoff * jitterPercent) \div 100 ELSE backoff
  IN IF rateLimitResetTime # 0 /\ resetDelay > 0
       THEN Min(resetDelay + 1000, cfg.maxDelay)
       ELSE delay

\* calculateDelay(attempt, config, rateLimitResetTime) for attempt n, with the clock reading
\* and the random jitter factor it draws.
calculateDelay(n, cfg, rateLimitResetTime, dateNow, jitterPercent) ==
  LET resetDelay == (rateLimitResetTime * 1000) - dateNow
      backoff == cfg.baseDelay * Pow(cfg.backoffMultiplier, n - 1)
      delay == IF cfg.jitter THEN (backoff * jitterPercent) \div 100 ELSE backoff
  IN IF rateLimitResetTime # 0 /\ resetDelay > 0
       THEN Min(resetDelay + 1000, cfg.maxDelay)
       ELSE Min(delay, cfg.maxDelay)

\* The profiles calculateDelay is exercised with: the two named ones and
\* profiles with baseDelay >= 0, backoffMultiplier >= 1 and a cap below, at
\* and above the base delay.
DelayProfiles ==
  {DEFAULT_RETRY_CONFIG, RATE_LIMIT_RETRY_CONFIG} \cup
  [maxRetries : {MaxDelayAttempt}, baseDelay : {0, 1000}, maxDelay : {500, 1000, 30000},
   backoffMultiplier : {1, 2, 3}, jitter : BOOLEAN]

NoArgs == [rateLimitResetTime |-> 0, dateNow |-> 0, jitterPercent |-> 100]

DelayInit ==
  /\ delayProfile \in DelayProfiles
  /\ delayAttempt = 0
  /\ delayArgs = NoArgs
  /\ delayResult = 0
  /\ prevArgs = NoArgs
  /\ prevResult = 0

\* calculateDelay(attempt, config, rateLimitResetTime) is called for the next
\* attempt; Math.random() is drawn only when config.jitter is set.
CalculateDelayCall ==
  /\ delayAttempt < MaxDelayAttempt
  /\ delayAttempt' = delayAttempt + 1
  /\ \E hint \in Hints, dateNow \in NowValues,
        j \in (IF delayProfile.jitter THEN JitterPercents ELSE {100}) :
       /\ delayArgs' = [rateLimitResetTime |-> hint, dateNow |-> dateNow,
                        jitterPercent |-> j]
       /\ delayResult' = calculateDelay(delayAttempt + 1, delayProfile, hint,
                                        dateNow, j)
  /\ prevArgs' = delayArgs
  /\ prevResult' = delayResult
  /\ UNCHANGED <<whVars, cbVars, rtVars, anVars>>
  /\ UNCHANGED delayProfile

\* The caller starts over with attempt 1 (a new withRetry call).
DelayRestart ==
  /\ delayAttempt >= 1
  /\ delayAttempt' = 0
  /\ delayArgs' = NoArgs /\ delayResult' = 0
  /\ prevArgs' = NoArgs /\ prevResult' = 0
  /\ UNCHANGED <<whVars, cbVars, rtVars, anVars>>
  /\ UNCHANGED delayProfile

DelayNext ==
  \/ CalculateDelayCall
  \/ DelayRestart


RetryInit ==
  /\ config = DEFAULT_RETRY_CONFIG
  /\ rtPc = "idle"
  /\ attempt = 0
  /\ invocations = 0
  /\ rtFailures = 0
  /\ lastError = "none"
  /\ sleeps = 0
  /\ sleepDelay = 0
  /\ delayConfig = DEFAULT_RETRY_CONFIG
  /\ outcome = "none"
  /\ logged = {}

\* Variant: the loop runs to the rate-limit profile's budget.
LastAttempt_RateLimitProfile(n, cfg) == n > RATE_LIMIT_RETRY_CONFIG.maxRetries

\* Variant: the last retry is not made.
LastAttempt_OffByOne(n, cfg) == n >= cfg.maxRetries

\* attempt > config.maxRetries
LastAttempt(n, cfg) == n > cfg.maxRetries

\* withRetry is called: attempt = 1 passes the loop test, operation() is
\* invoked and awaited.
RetryStartBody(cfg) ==
  /\ rtPc = "idle"
  /\ config' = cfg
  /\ rtPc' = "attempting"
  /\ attempt' = 1
  /\ invocations' = 1
  /\ UNCHANGED <<rtFailures, lastError, sleeps, sleepDelay, delayConfig, outcome,
                 logged>>

RetryStart ==
  /\ \E cfg \in CallerProfiles : RetryStartBody(cfg)
  /\ UNCHANGED <<whVars, cbVars, dlVars, anVars>>

\* return await operation()
AttemptSucceedsBody ==
  /\ rtPc = "attempting"
  /\ rtPc' = "returned"
  /\ outcome' = "value"
  /\ UNCHANGED <<config, attempt, invocations, rtFailures, lastError, sleeps,
                 sleepDelay, delayConfig, logged>>

AttemptSucceeds ==
  /\ AttemptSucceedsBody
  /\ UNCHANGED <<whVars, cbVars, dlVars, anVars>>

\* logError: the errorType and isRetryable fields of the record it logs.
logError(error) ==
  LET errorType == classifyError(error)
      isRetryable == isRetryableError(errorType)
  IN [error |-> error, errorType |-> errorType, isRetryable |-> isRetryable]

\* Variant: every delay is computed from the caller's profile.
RetryProfile_Caller(errorType, cfg) == cfg

\* retryConfig = errorType === RATE_LIMIT ? RATE_LIMIT_RETRY_CONFIG : config
RetryProfile(errorType, cfg) ==
  IF errorType = "rate_limit" THEN RATE_LIMIT_RETRY_CONFIG ELSE cfg

\* operation() rejected with a fault: classify, then either break and throw
\* lastError or compute the delay and sleep.  Only a StripeRateLimitError
\* carries the reset header.
AttemptFailsBody ==
  /\ rtPc = "attempting"
  /\ \E error \in Faults :
       LET errorType == classifyError(error) IN
       /\ lastError' = error
       /\ rtFailures' = rtFailures + 1
       /\ logged' = logged \cup {logError(error)}
       /\ IF LastAttempt(attempt, config) \/ ~isRetryableError(errorType)
            THEN /\ rtPc' = "thrown"
                 /\ outcome' = error
                 /\ UNCHANGED <<sleeps, sleepDelay, delayConfig>>
            ELSE \E hint \in Hints, dateNow \in NowValues, j \in JitterPercents :
                   LET rateLimitResetTime ==
                         IF error = "StripeRateLimitError" THEN hint ELSE 0
                       retryConfig == RetryProfile(errorType, config)
                   IN /\ sleepDelay' = calculateDelay(attempt, retryConfig,
                                                 rateLimitResetTime, dateNow, j)
                      /\ delayConfig' = retryConfig
                      /\ sleeps' = sleeps + 1
                      /\ rtPc' = "sleeping"
                      /\ UNCHANGED outcome
  /\ UNCHANGED <<config, attempt, invocations>>

AttemptFails ==
  /\ AttemptFailsBody
  /\ UNCHANGED <<whVars, cbVars, dlVars, anVars>>

\* sleep(delay) resolved: attempt++, the loop test passes, operation() is
\* invoked again.
SleepDoneBody ==
  /\ rtPc = "sleeping"
  /\ attempt' = attempt + 1
  /\ attempt + 1 <= config.maxRetries + 1
  /\ invocations' = invocations + 1
  /\ rtPc' = "attempting"
  /\ UNCHANGED <<config, rtFailures, lastError, sleeps, sleepDelay, delayConfig,
                 outcome, logged>>

SleepDone ==
  /\ SleepDoneBody
  /\ UNCHANGED <<whVars, cbVars, dlVars, anVars>>

RetryNext ==
  \/ RetryStart
  \/ AttemptSucceeds
  \/ AttemptFails
  \/ SleepDone

(***************************************************************************)
(* The checkout function's session creation: one call of                   *)
(* stripeCircuitBreaker.execute whose operation is a whole retryStripeCall *)
(* loop.  The breaker sees the loop's final result only.                   *)
(***************************************************************************)

\* The execute frame of the session creation.
SessionCall == "a"

\* stripeCircuitBreaker.execute(...) is entered; unless the breaker rejects
\* the call, retryStripeCall starts withRetry under DEFAULT_RETRY_CONFIG and
\* the first attempt is invoked.
GuardedStart ==
  /\ ExecuteStartBody(SessionCall)
  /\ IF call'[SessionCall].pc = "running"
       THEN RetryStartBody(DEFAULT_RETRY_CONFIG)
       ELSE UNCHANGED rtVars
  /\ UNCHANGED <<whVars, dlVars, anVars>>

\* An attempt resolved: withRetry returns, so the operation of execute
\* resolved and onSuccess runs.
GuardedAttemptSucceeds ==
  /\ call[SessionCall].pc = "running"
  /\ AttemptSucceedsBody
  /\ OperationSucceedsBody(SessionCall)
  /\ UNCHANGED <<whVars, dlVars, anVars>>

\* An attempt rejected: withRetry either sleeps, leaving the breaker alone,
\* or throws lastError, so the operation of execute rejected and onFailure
\* runs once.
GuardedAttemptFails ==
  /\ call[SessionCall].pc = "running"
  /\ AttemptFailsBody
  /\ IF rtPc' = "thrown"
       THEN OperationFailsBody(SessionCall)
       ELSE UNCHANGED cbVars
  /\ UNCHANGED <<whVars, dlVars, anVars>>

\* sleep(delay) resolved inside the loop: the next attempt is invoked with
\* no look at the breaker.
GuardedSleepDone ==
  /\ call[SessionCall].pc = "running"
  /\ SleepDoneBody
  /\ UNCHANGED cbVars
  /\ UNCHANGED <<whVars, dlVars, anVars>>

\* The request has the result of execute; the next request's withRetry call
\* starts with fresh locals.
GuardedDone ==
  /\ CallDoneBody(SessionCall)
  /\ config' = DEFAULT_RETRY_CONFIG
  /\ rtPc' = "idle"
  /\ attempt' = 0
  /\ invocations' = 0
  /\ rtFailures' = 0
  /\ lastError' = "none"
  /\ sleeps' = 0
  /\ sleepDelay' = 0
  /\ delayConfig' = DEFAULT_RETRY_CONFIG
  /\ outcome' = "none"
  /\ logged' = {}
  /\ UNCHANGED <<whVars, dlVars, anVars>>

GuardedNext ==
  \/ GuardedStart
  \/ GuardedAttemptSucceeds
  \/ GuardedAttemptFails
  \/ GuardedSleepDone
  \/ GuardedDone
  \/ Tick

(***************************************************************************)
(* Admin notifications: sendAdminNotification and its rate-limit cache.    *)
(* Times are in minutes; overlapping calls share the module-level cache.   *)
(***************************************************************************)
NotificationSeverity == {"low", "medium", "high", "critical"}
NotificationChannel == {"email", "webhook", "database", "console"}

DEFAULT_CONFIG ==
  [channels |-> {"database", "console"},
   enabledSeverities |-> {"high", "critical"},
   rateLimitMinutes |-> 5]

\* The configurations tried: the default one, one without rate limiting
\* (0: rateLimitMinutes undefined), and one with a third channel and a window
\* of two minutes.
NotifyConfigs ==
  {DEFAULT_CONFIG,
   [DEFAULT_CONFIG EXCEPT !.rateLimitMinutes = 0],
   [DEFAULT_CONFIG EXCEPT !.channels = {"webhook", "database", "console"},
                          !.rateLimitMinutes = 2]}

NotifyCallers == {"n1", "n2"}   \* overlapping sendAdminNotification calls

\* The NotificationData the callers build, as <<operation, errorType, severity>>:
\* that of notifySubscriptionFailure (high) and that of notifyWebhookFailure
\* without a retry count (medium).
NotificationKinds == {SubscriptionFailureCall, WebhookFailureCall}

\* `${data.operation}-${data.errorType}-${data.severity}`
CacheKey(data) == data

\* repeat: a call with the same key started its channel sends before this
\* one did; sinceFanOut: how long before.
IdleSend == [pc |-> "idle", data |-> SubscriptionFailureCall, result |-> "none",
             repeat |-> FALSE, sinceFanOut |-> 0, attempted |-> {},
             pending |-> {}, failedCh |-> {}]

NotifyInit ==
  /\ notifyConfig \in NotifyConfigs
  /\ notificationCache = [k \in NotificationKinds |-> 0]
  /\ notifyNow = 1
  /\ send = [c \in NotifyCallers |-> IdleSend]
  /\ lastFanOut = [k \in NotificationKinds |-> 0]
  /\ notifications = 0

\* Variant: there is no severity gate.
SeverityEnabled_All(severity, enabledSeverities) == TRUE

\* config.enabledSeverities.includes(data.severity)
SeverityEnabled(severity, enabledSeverities) == severity \in enabledSeverities

\* The order of the members of NotificationSeverity, lowest first.
SeverityRank(severity) ==
  CASE severity = "low" -> 1
    [] severity = "medium" -> 2
    [] severity = "high" -> 3
    [] severity = "critical" -> 4

\* The lowest severity a configuration lets through.
MinimumSeverity(enabledSeverities) ==
  CHOOSE m \in enabledSeverities :
    \A s \in enabledSeverities : SeverityRank(m) <= SeverityRank(s)

\* Variant: a call arriving exactly one window after the last send is still
\* held back.
isRateLimited_Inclusive(data, rateLimitMinutes) ==
  LET lastSent == notificationCache[CacheKey(data)] IN
  IF lastSent = 0 THEN FALSE
  ELSE notifyNow - lastSent <= rateLimitMinutes

\* isRateLimited(data, rateLimitMinutes)
isRateLimited(data, rateLimitMinutes) ==
  LET lastSent == notificationCache[CacheKey(data)] IN
  IF lastSent = 0 THEN FALSE
  ELSE notifyNow - lastSent < rateLimitMinutes

\* Variant: the switch has no case for the console channel.
Dispatched_NoConsole(channels) == channels \cap {"email", "webhook", "database"}

\* config.channels.map(...): the channels whose send function is called; any
\* other value gets Promise.resolve().
Dispatched(channels) ==
  channels \cap {"email", "webhook", "database", "console"}

\* updateRateLimitCache(data): set the key, then drop entries older than a
\* day (24 * 60 minutes) once the map holds more than 1000 keys.
updateRateLimitCache(data) ==
  LET set == [notificationCache EXCEPT ![CacheKey(data)] = notifyNow]
      size == Cardinality({k \in NotificationKinds : set[k] # 0})
  IN IF size > 1000
       THEN [k \in NotificationKinds |->
               IF set[k] < notifyNow - 24 * 60 THEN 0 ELSE set[k]]
       ELSE set

\* sendAdminNotification up to "await Promise.allSettled(promises)": the
\* severity gate, the rate-limit check, then every channel's send function is
\* called.  logConsoleNotification has no await, so its outcome is already
\* known; the other channels wait for I/O.
NotifyStart(c) ==
  /\ send[c].pc = "idle"
  /\ notifications < MaxNotifications
  /\ notifications' = notifications + 1
  /\ \E data \in NotificationKinds :
       IF ~SeverityEnabled(data[3], notifyConfig.enabledSeverities)
         THEN /\ send' = [send EXCEPT ![c] =
                           [IdleSend EXCEPT !.pc = "done", !.data = data,
                                            !.result = "dropped"]]
              /\ UNCHANGED lastFanOut
       ELSE IF notifyConfig.rateLimitMinutes # 0
                 /\ isRateLimited(data, notifyConfig.rateLimitMinutes)
         THEN /\ send' = [send EXCEPT ![c] =
                           [IdleSend EXCEPT !.pc = "done", !.data = data,
                                            !.result = "suppressed"]]
              /\ UNCHANGED lastFanOut
       ELSE \E consoleOk \in BOOLEAN :
              LET chans == Dispatched(notifyConfig.channels) IN
              /\ send' = [send EXCEPT ![c] =
                    [IdleSend EXCEPT !.pc = "awaiting", !.data = data,
                       !.repeat = lastFanOut[CacheKey(data)] # 0,
                       !.sinceFanOut =
                          IF lastFanOut[CacheKey(data)] = 0 THEN 0
                          ELSE notifyNow - lastFanOut[CacheKey(data)],
                       !.attempted = chans,
                       !.pending = chans \ {"console"},
                       !.failedCh = IF consoleOk THEN {}
                                    ELSE chans \cap {"console"}]]
              /\ lastFanOut' = [lastFanOut EXCEPT ![CacheKey(data)] = notifyNow]
  /\ UNCHANGED <<whVars, cbVars, rtVars, dlVars>>
  /\ UNCHANGED <<notifyConfig, notificationCache, notifyNow>>

\* The I/O of one channel's send function finished, delivered or not; a
\* failure is caught and logged inside the send function.
ChannelSettles(c) ==
  /\ send[c].pc = "awaiting"
  /\ \E ch \in send[c].pending, ok \in BOOLEAN :
       send' = [send EXCEPT ![c].pending = @ \ {ch},
                            ![c].failedCh = IF ok THEN @ ELSE @ \cup {ch}]
  /\ UNCHANGED <<whVars, cbVars, rtVars, dlVars>>
  /\ UNCHANGED <<notifyConfig, notificationCache, notifyNow, lastFanOut,
                 notifications>>

\* Promise.allSettled resolved: the cache entry of the key is set, the call
\* returns.
NotifyResume(c) ==
  /\ send[c].pc = "awaiting"
  /\ send[c].pending = {}
  /\ notificationCache' = IF notifyConfig.rateLimitMinutes # 0
                            THEN updateRateLimitCache(send[c].data)
                            ELSE notificationCache
  /\ send' = [send EXCEPT ![c].pc = "done", ![c].result = "sent"]
  /\ UNCHANGED <<whVars, cbVars, rtVars, dlVars>>
  /\ UNCHANGED <<notifyConfig, notifyNow, lastFanOut, notifications>>

\* The caller has its (void) result; the slot is free for the next call.
NotifyClose(c) ==
  /\ send[c].pc = "done"
  /\ send' = [send EXCEPT ![c] = IdleSend]
  /\ UNCHANGED <<whVars, cbVars, rtVars, dlVars>>
  /\ UNCHANGED <<notifyConfig, notificationCache, notifyNow, lastFanOut,
                 notifications>>

\* A minute passes.
NotifyTick ==
  /\ notifyNow < MaxNotifyTime
  /\ notifyNow' = notifyNow + 1
  /\ UNCHANGED <<whVars, cbVars, rtVars, dlVars>>
  /\ UNCHANGED <<notifyConfig, notificationCache, send, lastFanOut,
                 notifications>>

NotifyNext ==
  \/ \E c \in NotifyCallers : NotifyStart(c)
  \/ \E c \in NotifyCallers : ChannelSettles(c)
  \/ \E c \in NotifyCallers : NotifyResume(c)
  \/ \E c \in NotifyCallers : NotifyClose(c)
  \/ NotifyTick

(***************************************************************************)
(* Specifications: one per component; the other components stay as built.  *)
(***************************************************************************)
\* A component nobody uses: as constructed, with its default configuration.
WebhookUnused == WebhookInit /\ webhookSecret
BreakerUnused == BreakerInit /\ failureThreshold = 5 /\ resetTimeout = 1

DelayUnused == DelayInit /\ delayProfile = DEFAULT_RETRY_CONFIG
NotifyUnused == NotifyInit /\ notifyConfig = DEFAULT_CONFIG

Init == WebhookInit /\ BreakerUnused /\ RetryInit /\ DelayUnused /\ NotifyUnused

Spec == Init /\ [][Next]_vars

\* The gateway over more than one lifetime of its module.
ReloadNext ==
  \/ Next
  \/ ModuleLoad

ReloadSpec == Init /\ [][ReloadNext]_vars

CbInit == WebhookUnused /\ BreakerInit /\ RetryInit /\ DelayUnused /\ NotifyUnused

BreakerSpec == CbInit /\ [][BreakerNext]_vars

RtInit == WebhookUnused /\ BreakerUnused /\ RetryInit /\ DelayUnused /\ NotifyUnused

RetrySpec == RtInit /\ [][RetryNext]_vars

GuardedSpec == RtInit /\ [][GuardedNext]_vars

DlInit == WebhookUnused /\ BreakerUnused /\ RetryInit /\ DelayInit /\ NotifyUnused

DelaySpec == DlInit /\ [][DelayNext]_vars

AnInit == WebhookUnused /\ BreakerUnused /\ RetryInit /\ DelayUnused /\ NotifyInit

NotifySpec == AnInit /\ [][NotifyNext]_vars

\* withRetry with its awaits resolving: every operation() invocation settles
\* and every sleep(delay) timer fires; a caller calls it.
RetryFairSpec ==
  /\ RtInit /\ [][RetryNext]_vars
  /\ WF_vars(RetryStart)
  /\ WF_vars(AttemptSucceeds \/ AttemptFails)
  /\ WF_vars(SleepDone)


(***************************************************************************)
(* Properties of the webhook gateway (checked under Spec)                  *)
(***************************************************************************)
InFlight(r) == req[r].pc \notin {"idle", "responded"}

\* Requests that hold the claim on e while their handler runs.
Holders(e) == {r \in Req : req[r].ev = e /\ req[r].claimed /\ ~req[r].released
                           /\ InFlight(r)}

\* C1: delivering the signed payload of an event id N times applies its
\* handler's side effects at most once, the 2nd..Nth deliveries are answered
\* 200 with processed = false, and an id whose delivery was handled normally
\* stays in processedEvents.
C1_IdempotentDelivery ==
  /\ \A e \in EventIds : effectRuns[e] <= 1
  /\ \A r \in Req : (req[r].pc = "responded" /\ req[r].ord >= 2)
                       => (req[r].status = 200 /\ req[r].processed = "false")
  /\ \A e \in EventIds : handled[e] => e \in processedEvents

\* The parts of C1 that the code keeps: side effects at most once per id, and
\* no release after a normal return.
C1_EffectsAtMostOnce ==
  /\ \A e \in EventIds : effectRuns[e] <= 1
  /\ \A e \in EventIds : handled[e] => e \in processedEvents

\* C2: of the requests in flight for one event id at most one holds the claim
\* and runs a handler; every claim beyond the first follows a release; a
\* request that reaches the check while the id is claimed does not claim.
C2_ExactlyOneClaim ==
  \A e \in EventIds :
    /\ Cardinality(Holders(e)) <= 1
    /\ claims[e] = releases[e] + (IF e \in processedEvents THEN 1 ELSE 0)
    /\ (Holders(e) # {}) => (e \in processedEvents)

\* Two requests for one fresh id overlap: one claimed it and is in its
\* handler, the other was answered as a duplicate.
C2_Witness ==
  \E r1, r2 \in Req :
    /\ r1 # r2 /\ req[r1].ev = req[r2].ev /\ req[r1].ev \in EventIds
    /\ req[r1].claimed /\ InFlight(r1) /\ req[r1].ord = 1
    /\ req[r2].pc = "responded" /\ ~req[r2].claimed /\ req[r2].ord = 2
    /\ req[r2].processed = "false"

\* A released id has been claimed again by a later delivery.
C2_Reclaimed == \E e \in EventIds : claims[e] >= 2 /\ releases[e] >= 1

\* C3: a request whose handler failed (store write or customer lookup) has
\* released its claim by the time it responds.
C3_ReleaseOnHandlerFailure ==
  \A r \in Req : (req[r].pc = "responded" /\ req[r].failed) => req[r].released

\* C4: a POST with a valid signature is answered 200 whatever the handler did.
C4_Always200 ==
  \A r \in Req : (req[r].pc = "responded" /\ req[r].method = "POST"
                  /\ req[r].sig = "good" /\ webhookSecret)
                    => req[r].status = 200

\* C5: no step of a POST without signature header, or whose signature fails
\* verification, changes the processed set, the retry map or the store, or
\* issues a notification; the request claims nothing and is answered 400.
C5_RejectsUnsigned ==
  [][\A r \in Req :
       (/\ req'[r] # req[r]
        /\ req'[r].pc # "idle"
        /\ req'[r].method = "POST"
        /\ (req'[r].sig = "none" \/ (req'[r].sig = "bad" /\ webhookSecret)))
       => /\ UNCHANGED <<processedEvents, retryAttempts, customers,
                         subscriptions, payments, notifyCalls, checks, claims,
                         releases, effectRuns, handled>>
          /\ ~req'[r].claimed /\ ~req'[r].wrote
          /\ (req'[r].pc = "responded" => req'[r].status = 400)]_vars

\* A request with a bad signature was answered 400 while an event was claimed.
C5_Witness ==
  \E r \in Req : /\ req[r].pc = "responded" /\ req[r].sig = "bad"
                 /\ req[r].status = 400 /\ processedEvents # {}

\* C26: whenever a handler threw while its request held the claim of the
\* event, the gateway has released the claim and has called the notification
\* pipeline with severity critical, and it answers only after both.
C26_ThrowEscalates ==
  \A r \in Req :
    req[r].threw =>
      /\ req[r].released
      /\ CriticalErrorCall \in notifyCalls
      /\ \E n \in notifyCalls : n[3] = "critical"
      /\ req[r].pc \in {"catch", "responded"}

\* A request whose handler threw has answered; the critical notification
\* was issued on the way.
C26_Witness ==
  \E r \in Req :
    /\ req[r].threw /\ req[r].pc = "responded" /\ req[r].released
    /\ CriticalErrorCall \in notifyCalls

(***************************************************************************)
(* Properties of the CircuitBreaker (checked under BreakerSpec)            *)
(***************************************************************************)
\* C6: the failed call that makes failureThreshold consecutive failures leaves
\* the breaker open, and a call started right then is rejected without
\* invoking its operation.
C6_OpensAtThreshold ==
  [][/\ (consecFails' > consecFails /\ consecFails' >= failureThreshold)
          => state' = "open"
     /\ \A c \in Calls :
          (/\ call[c].pc = "idle" /\ call'[c].pc # "idle"
           /\ consecFails >= failureThreshold /\ lastFailureTime = now)
          => (call'[c].pc = "rejected" /\ ~call'[c].invoked)]_vars

\* Five failures in a row with threshold 5: open, and a sixth call rejected.
C6_Witness ==
  /\ failureThreshold = 5 /\ consecFails = 5 /\ state = "open"
  /\ \E c \in Calls : call[c].pc = "rejected" /\ ~call[c].invoked

\* C7: a call that finds the breaker open with at most resetTimeout elapsed
\* since the last failure is rejected and its operation is not invoked.
C7_OpenRejects ==
  \A c \in Calls :
    (call[c].entry = "open" /\ call[c].since <= resetTimeout)
      => (call[c].pc = "rejected" /\ ~call[c].invoked)

\* A call was rejected exactly resetTimeout after the last failure.
C7_Witness ==
  \E c \in Calls : /\ call[c].entry = "open" /\ call[c].since = resetTimeout
                   /\ call[c].pc = "rejected"

\* C8: a call that finds the breaker half-open (the probe is in flight) is
\* rejected without invoking its operation.
C8_SingleProbe ==
  \A c \in Calls : call[c].entry = "half-open" => ~call[c].invoked

\* C20: the probe (the call that moved the breaker from open to half-open)
\* decides the next state: when it succeeds it leaves the breaker closed with
\* failures = 0, when it fails it leaves the breaker open again, whatever
\* other calls completed while it was in flight.
C20_ProbeDecides ==
  \A c \in Calls :
    call[c].probe =>
      /\ (call[c].pc = "returned") =>
            (call[c].left = "closed" /\ call[c].leftFailures = 0)
      /\ (call[c].pc = "threw") => (call[c].left = "open")

\* The part of C20 the code keeps: a probe that succeeds closes the breaker,
\* and one that fails with failures still at the threshold opens it.
C20_ProbeDecidesUndisturbed ==
  \A c \in Calls :
    call[c].probe =>
      /\ (call[c].pc = "returned") =>
            (call[c].left = "closed" /\ call[c].leftFailures = 0)
      /\ (call[c].pc = "threw" /\ call[c].leftFailures > failureThreshold)
            => (call[c].left = "open")

\* C21: a completing call changes the state only along closed -> open,
\* half-open -> closed or half-open -> open, never from open to closed; a
\* starting call changes it only from open to half-open, and only when more
\* than resetTimeout has passed since the last failure.
C21_OnlyListedEdges ==
  \A c \in Calls :
    /\ (call[c].pc \in {"returned", "threw"} /\ call[c].found # call[c].left)
          => <<call[c].found, call[c].left>> \in
               {<<"closed", "open">>, <<"half-open", "closed">>,
                <<"half-open", "open">>}
    /\ call[c].probe => (call[c].entry = "open" /\ call[c].since > resetTimeout)

\* The part of C21 the code keeps: the edges taken by failing calls and by
\* starting calls.
C21_FailureAndStartEdges ==
  \A c \in Calls :
    /\ (call[c].pc = "threw" /\ call[c].found # call[c].left)
          => <<call[c].found, call[c].left>> \in
               {<<"closed", "open">>, <<"half-open", "open">>}
    /\ call[c].probe => (call[c].entry = "open" /\ call[c].since > resetTimeout)

\* C22: a call that succeeds while the breaker is closed leaves it closed
\* with failures = 0, so the counter is the number of failures since the last
\* success and failures on either side of a success are not added up.
C22_SuccessResetsCount ==
  /\ \A c \in Calls :
        (call[c].pc = "returned" /\ call[c].found = "closed")
          => (call[c].left = "closed" /\ call[c].leftFailures = 0)
  /\ failures = consecFails

\* With threshold 2: one call failed, then another succeeded while the
\* breaker was closed; the count is back at 0.
C22_Witness ==
  /\ failureThreshold = 2 /\ failures = 0 /\ state = "closed"
  /\ \E a, b \in Calls :
        /\ call[a].pc = "threw" /\ call[a].leftFailures = 1
        /\ call[b].pc = "returned" /\ call[b].found = "closed"

\* C28: in every reachable state the breaker is closed exactly when its
\* failure count is below the threshold; open and half-open come with a
\* count at or above it.
C28_ClosedIffBelowThreshold ==
  /\ (state = "closed") <=> (failures < failureThreshold)
  /\ (state \in {"open", "half-open"}) => (failures >= failureThreshold)

\* Half-open with the count above the threshold, while a call that entered
\* when the breaker was closed is still in flight beside the probe.
C28_Witness ==
  /\ state = "half-open" /\ failures > failureThreshold
  /\ \E a, b \in Calls :
        /\ call[a].pc = "running" /\ call[a].probe
        /\ call[b].pc = "running" /\ call[b].entry = "closed"

\* C23: every attempt of the retry loop is run through the breaker, so each
\* failed attempt is one breaker failure: while the session creation runs
\* or has thrown, the breaker has counted at least the failed attempts of its
\* loop.
C23_EveryAttemptCounted ==
  call[SessionCall].pc \in {"running", "threw"} => failures >= rtFailures

(***************************************************************************)
(* Properties of withRetry (checked under RetrySpec)                       *)
(***************************************************************************)
\* C9: k <= maxRetries retryable failures followed by a success: withRetry
\* returns the success value after exactly k + 1 invocations; it gives up
\* after k <= maxRetries failures only on a non-retryable one.
C9_RetryThenSuccess ==
  /\ (rtPc = "returned")
       => (outcome = "value" /\ invocations = rtFailures + 1
           /\ rtFailures <= config.maxRetries)
  /\ (rtPc = "thrown" /\ rtFailures <= config.maxRetries)
       => ~isRetryableError(classifyError(lastError))
  /\ (rtPc \in {"attempting", "sleeping"}) => (rtFailures <= config.maxRetries)

\* Two network failures, then success on the third attempt, maxRetries = 3.
C9_Witness ==
  /\ rtPc = "returned" /\ config.maxRetries = 3 /\ rtFailures = 2
  /\ classifyError(lastError) = "network" /\ invocations = 3

\* C10: after a failure of a non-retryable class withRetry has thrown that
\* error: no further invocation and no sleep followed it.
C10_NoRetryOnFatal ==
  (rtFailures >= 1 /\ classifyError(lastError) \in
       {"authentication", "invalid_request", "card_error",
        "idempotency_error", "unknown"})
    => (/\ rtPc = "thrown" /\ outcome = lastError
        /\ invocations = rtFailures /\ sleeps = rtFailures - 1)

\* An authentication failure on the first attempt: thrown at once.
C10_Witness ==
  /\ rtPc = "thrown" /\ lastError = "StripeAuthenticationError"
  /\ invocations = 1 /\ sleeps = 0 /\ config.maxRetries = 3

\* C11: withRetry invokes the operation at most maxRetries + 1 times and, once
\* called, ends by returning or throwing; when it throws an error of a
\* retryable class every attempt was used: exactly maxRetries + 1 invocations,
\* and the error thrown is the operation's last failure.
C11_TerminatesWithinBudget ==
  /\ [](invocations <= config.maxRetries + 1)
  /\ []((rtPc = "thrown" /\ classifyError(lastError) \in
                               {"rate_limit", "network", "api_error"})
          => (/\ invocations = config.maxRetries + 1
              /\ rtFailures = invocations
              /\ outcome = lastError))
  /\ ((rtPc \in {"attempting", "sleeping"}) ~> (rtPc \in {"returned", "thrown"}))

\* Three retryable failures with maxRetries = 2: thrown after three invocations.
C11_Witness ==
  /\ rtPc = "thrown" /\ config.maxRetries = 2 /\ invocations = 3
  /\ rtFailures = 3 /\ outcome = "StripeAPIError" /\ sleeps = 2

\* C12: every fault is classified as one member of ErrorType, the same one
\* each time, and isRetryable is true exactly for rate_limit, network and
\* api_error, whatever the attempt, the profile or the earlier faults.
C12_ClassificationTable ==
  /\ \A d \in logged :
        /\ d.errorType \in ErrorType
        /\ d.isRetryable = (d.errorType \in {"rate_limit", "network", "api_error"})
  /\ \A d1, d2 \in logged : (d1.error = d2.error) => (d1 = d2)
  /\ (lastError # "none") =>
        (\E d \in logged : d.error = lastError
                            /\ (rtPc = "sleeping" => d.isRetryable))

\* A run logged faults of all three retryable classes and then one of a
\* class that is not retried (a Stripe connection error, classified unknown).
C12_Witness ==
  /\ {d.errorType : d \in {x \in logged : x.isRetryable}}
        = {"rate_limit", "network", "api_error"}
  /\ [error |-> "StripeConnectionError", errorType |-> "unknown",
       isRetryable |-> FALSE] \in logged
  /\ rtPc = "thrown"

\* C29: the number of invocations is bounded by the caller's profile alone:
\* also when attempts fail with rate_limit and the sleeps are taken from the
\* rate-limit profile, withRetry sleeps only while retries of the caller's
\* budget are left and throws after maxRetries + 1 invocations of the
\* caller's profile.
C29_BudgetFromCallerProfile ==
  /\ invocations <= config.maxRetries + 1
  /\ (rtPc = "sleeping" /\ classifyError(lastError) = "rate_limit")
       => (delayConfig = RATE_LIMIT_RETRY_CONFIG /\ attempt <= config.maxRetries)
  /\ (rtPc = "thrown" /\ classifyError(lastError) = "rate_limit")
       => invocations = config.maxRetries + 1

\* maxRetries = 1: a rate-limited attempt slept under the rate-limit profile
\* (longer than the caller's maxDelay), the second attempt was rate-limited
\* too and withRetry threw after two invocations.
C29_Witness ==
  /\ rtPc = "thrown" /\ classifyError(lastError) = "rate_limit"
  /\ config.maxRetries = 1 /\ invocations = 2 /\ sleeps = 1
  /\ delayConfig = RATE_LIMIT_RETRY_CONFIG /\ sleepDelay > config.maxDelay

\* C24: while withRetry sleeps after a failed attempt, the delay was computed
\* from RATE_LIMIT_RETRY_CONFIG when the attempt's error is classified
\* rate_limit and from the caller's profile for every other retryable class:
\* the profile used is that one, and the delay is a value calculateDelay
\* gives for this attempt under it.
C24_DelayProfileByClass ==
  rtPc = "sleeping" =>
    LET profile == IF classifyError(lastError) = "rate_limit"
                     THEN RATE_LIMIT_RETRY_CONFIG ELSE config
    IN /\ delayConfig = profile
       /\ \E hint \in Hints, dateNow \in NowValues, j \in JitterPercents :
            sleepDelay = calculateDelay(attempt, profile,
                           IF lastError = "StripeRateLimitError" THEN hint ELSE 0,
                           dateNow, j)

\* A rate-limited attempt under a caller's profile other than the rate-limit
\* profile: the sleep is taken from RATE_LIMIT_RETRY_CONFIG.
C24_Witness ==
  /\ rtPc = "sleeping" /\ classifyError(lastError) = "rate_limit"
  /\ config # RATE_LIMIT_RETRY_CONFIG /\ delayConfig = RATE_LIMIT_RETRY_CONFIG
  /\ sleepDelay > config.maxDelay

(***************************************************************************)
(* Properties of calculateDelay (checked under DelaySpec)                  *)
(***************************************************************************)
\* A call without jitter and without a rate-limit reset hint.
PlainDelay(args) == ~delayProfile.jitter /\ args.rateLimitResetTime = 0

\* C13: with jitter off and no reset hint the delay of an attempt is at most
\* maxDelay and at least the delay of the attempt before it.
C13_MonotoneCappedDelay ==
  (delayAttempt >= 1 /\ PlainDelay(delayArgs)) =>
     /\ delayResult <= delayProfile.maxDelay
     /\ (delayAttempt >= 2 /\ PlainDelay(prevArgs)) => delayResult >= prevResult

\* The delay grew from one attempt to the next and reached the cap.
C13_Witness ==
  /\ delayAttempt >= 2 /\ PlainDelay(delayArgs) /\ PlainDelay(prevArgs)
  /\ prevResult > 0 /\ prevResult < delayResult
  /\ delayResult = delayProfile.maxDelay

\* C25: whenever calculateDelay is given a hint, its result is the time left
\* until the hinted reset (none for a hint in the past) plus the 1 s buffer,
\* capped at maxDelay, whatever the attempt number and the jitter.
C25_HintDelay ==
  (delayAttempt >= 1 /\ delayArgs.rateLimitResetTime # 0) =>
    LET left == (delayArgs.rateLimitResetTime * 1000) - delayArgs.dateNow
    IN delayResult = Min((IF left > 0 THEN left ELSE 0) + 1000, delayProfile.maxDelay)

(***************************************************************************)
(* Properties of sendAdminNotification (checked under NotifySpec)          *)
(***************************************************************************)
FannedOut(c) == send[c].pc = "awaiting" \/ send[c].result = "sent"

\* C14: with rate limiting configured, two calls with the same key do not
\* both start their channel sends within one rate-limit window, also when
\* the second call starts while the first is awaiting its sends.
C14_OneFanOutPerWindow ==
  \A c \in NotifyCallers :
    (FannedOut(c) /\ notifyConfig.rateLimitMinutes # 0 /\ send[c].repeat)
      => send[c].sinceFanOut >= notifyConfig.rateLimitMinutes

\* C15: a call that sends has called the send function of every configured
\* channel; once it has returned, every channel has settled, delivered or
\* not, and the call ended as dropped, suppressed or sent.
C15_AllChannelsAttempted ==
  \A c \in NotifyCallers :
    /\ FannedOut(c) => send[c].attempted = notifyConfig.channels
    /\ (send[c].pc = "done") =>
          /\ send[c].result \in {"dropped", "suppressed", "sent"}
          /\ send[c].pending = {}
          /\ send[c].failedCh \subseteq send[c].attempted

\* A call with three channels returned although the webhook and console
\* channels failed; the database row was written.
C15_Witness ==
  \E c \in NotifyCallers :
    /\ send[c].pc = "done" /\ send[c].result = "sent"
    /\ notifyConfig.channels = {"webhook", "database", "console"}
    /\ send[c].failedCh = {"webhook", "console"}

C30_SuppressedKeepsLastSent ==
  [][\A c \in NotifyCallers :
       (send[c].pc = "idle" /\ send'[c].pc # "idle") =>
         LET data == send'[c].data
             lastSent == notificationCache[CacheKey(data)]
             window == notifyConfig.rateLimitMinutes
         IN /\ send'[c].result \in {"suppressed", "dropped"}
                 => notificationCache' = notificationCache
            /\ send'[c].result = "suppressed"
                 => (lastSent # 0 /\ notifyNow - lastSent < window)
            /\ (SeverityEnabled(data[3], notifyConfig.enabledSeverities)
                  /\ lastSent # 0 /\ notifyNow - lastSent >= window)
                 => (send'[c].pc = "awaiting" /\ send'[c].attempted # {})]_vars

\* One call was suppressed inside the window; the next call with the same
\* key, a full window after the last send, is fanned out.
C30_Witness ==
  \E c1, c2 \in NotifyCallers :
    /\ notifyConfig.rateLimitMinutes # 0
    /\ send[c1].result = "suppressed"
    /\ send[c2].pc = "awaiting" /\ send[c2].data = send[c1].data
    /\ send[c2].repeat
    /\ notifyNow - notificationCache[CacheKey(send[c2].data)]
          = notifyConfig.rateLimitMinutes

(***************************************************************************)
(* Properties of the Reconciliation Handlers (checked under Spec)          *)
(***************************************************************************)
\* C16: every subscriptions row references a customers row; a handler issues
\* its subscriptions upsert only once it holds the customers row, and a
\* handler whose customer lookup or upsert failed issues none.
C16_SubscriptionHasCustomer ==
  /\ \A s \in subscriptions : s.customer \in customers
  /\ \A r \in Req :
        /\ req[r].subUpsert => (req[r].resolved /\ ~req[r].failed)
        /\ (req[r].failed \/ req[r].unresolved) => ~req[r].subUpsert
        /\ (req[r].pc \in {"co_upsertSub", "sub_upsert"}) =>
              (req[r].subUpsert /\ payload[req[r].ev].customer \in customers)

\* A subscription event wrote its row for a customer that a checkout session
\* had created.
C16_Witness ==
  \E r \in Req : /\ req[r].pc = "responded" /\ req[r].subUpsert
                  /\ payload[req[r].ev].type \in SubscriptionTypes
                  /\ SubscriptionRow(payload[req[r].ev]) \in subscriptions
                  /\ customers # {}

\* C17: a handler whose customer lookup finds no customer skips the event:
\* it writes nothing, throws nothing (not even into its own catch block),
\* issues no admin notification, and the request is answered 200 with
\* processed = false; this for the checkout handler and for the subscription
\* handlers alike.
C17_UnresolvedCustomerSkipped ==
  \A r \in Req :
    req[r].unresolved =>
      /\ ~req[r].wrote /\ ~req[r].failed /\ ~req[r].threw
      /\ (req[r].pc = "responded") =>
            (req[r].status = 200 /\ req[r].processed = "false")

\* The part of C17 the code keeps: the checkout handler skips, and no handler
\* writes a row or changes the response status for an unknown customer.
C17_CheckoutSkips ==
  \A r \in Req :
    req[r].unresolved =>
      /\ ~req[r].subUpsert /\ ~req[r].threw
      /\ (payload[req[r].ev].type = "checkout.session.completed")
            => (~req[r].wrote /\ ~req[r].failed)
      /\ (req[r].pc = "responded") =>
            (req[r].status = 200 /\ req[r].processed = "false")

\* C19: a customer.subscription.updated event that was claimed and whose
\* customer exists is answered processed = true, and whenever it is answered
\* processed = true the subscriptions row has the payload's status and period.
C19_ProcessedMeansReconciled ==
  \A r \in Req :
    (/\ req[r].pc = "responded" /\ req[r].claimed
     /\ payload[req[r].ev].type = "customer.subscription.updated")
      => /\ req[r].resolved => req[r].processed = "true"
         /\ (req[r].processed = "true") => req[r].matched

\* The part of C19 the code keeps: processed = true once the customer is found.
C19_ProcessedWhenResolved ==
  \A r \in Req :
    (/\ req[r].pc = "responded" /\ req[r].claimed
     /\ payload[req[r].ev].type = "customer.subscription.updated")
      => (req[r].resolved <=> req[r].processed = "true")

(***************************************************************************)
(* Re-running a handler (checked under ReloadSpec)                         *)
(***************************************************************************)
\* The request ran the handler of its event again, after an earlier run that
\* was not released, and no store call of this run failed for a reason other
\* than a constraint.
Rerun(r) ==
  /\ req[r].pc = "responded" /\ req[r].claimed /\ ~req[r].threw
  /\ ~req[r].storeError
  /\ claims[req[r].ev] >= 2 /\ releases[req[r].ev] = 0

\* C18: running the handler of an event again, also after a first run that
\* stopped half way, leaves the store as one complete run does: the customer
\* row and the subscription row of the event exist, and no two subscription
\* rows have the same stripe_subscription_id.
C18_RerunCompletes ==
  /\ \A s1, s2 \in subscriptions : (s1.id = s2.id) => (s1 = s2)
  /\ \A r \in Req :
        LET p == payload[req[r].ev] IN
        (Rerun(r) /\ p.type = "checkout.session.completed" /\ p.customer # 0
                  /\ ~req[r].unresolved)
          => /\ p.customer \in customers
             /\ (p.subscription # 0) => SubscriptionConflict(p.subscription)

\* The part of C18 the code keeps: one row per external id, and a re-run
\* never removes or changes what an earlier run wrote.
C18_OneRowPerId ==
  /\ \A s1, s2 \in subscriptions : (s1.id = s2.id) => (s1 = s2)
  /\ [][customers \subseteq customers' /\ subscriptions \subseteq subscriptions'
          /\ payments \subseteq payments']_vars

====
